---- MODULE Spec2Model ----
(***************************************************************************)
(* URL shortener (app/main.py): the link table (Store), the Redis          *)
(* key/value cache (Cache), the request handlers create_short_link,        *)
(* redirect_link, delete_link and reassign_code, the per-request guest     *)
(* cleanup middleware and the scheduled absolute-expiry sweep.             *)
(*                                                                         *)
(* Every database statement (a SELECT, the flush+COMMIT of a session) and  *)
(* every cache command (GET, SET, DEL) is one atomic step; requests are    *)
(* handled concurrently, each with its own database session, so the steps  *)
(* of different requests and of the sweep interleave freely.               *)
(***************************************************************************)
EXTENDS Integers, FiniteSets, TLC

\* ---- bounds of the model ----
NumProcs == 2      \* requests in flight at once
NumCodes == 2      \* distinct short codes (aliases and uuid draws)
NumUrls == 2       \* distinct destination URLs
NumUsers == 2      \* registered users
NumOwners == 1     \* of them, those who create links
MaxLinks == 2      \* rows ever inserted (the id sequence)
MaxNow == 4        \* the clock runs from 1 to MaxNow
MaxClicks == 2     \* redirects counted per link
MaxReqs == 3       \* requests received, without the scheduled sweep
MaxClockReqs == 2  \* requests received, with the scheduled sweep
MaxExpiry == 1     \* the latest expires_at a request asks for
NumSweeps == 2     \* runs of delete_expired_links that may overlap
MaxFairReqs == 2   \* requests received, under fair scheduling
MaxSeqReqs == 4    \* requests received, served one at a time

\* ---- program constants ----
UNREGISTERED_LINK_MAX_AGE_DAYS == 2

None == 0          \* Python None / SQL NULL / a cache miss

Procs == 1..NumProcs
Codes == 1..NumCodes
Urls == 1..NumUrls
Users == 1..NumUsers
Times == 1..MaxNow
Sweepers == 1..NumSweeps
BadDate == MaxNow + 1   \* an expires_at string strptime rejects

VARIABLES
    store,      \* table links: row id -> row (the live rows)
    nextId,     \* the id sequence of table links
    cache,      \* redis: short code -> url, None when the key is absent
    now,        \* the UTC clock
    pc,         \* per request slot: the statement it executes next
    arg,        \* per request slot: the request's parameters
    loc,        \* per request slot: the handler's local variables
    resp,       \* per request slot: the response (status, Location)
    swpc,       \* per run of the job delete_expired_links: its position
    swsel,      \* per run: its expired_links, and those not yet looped over
    retired,    \* history: codes whose delete/reassign has returned with no
                \*   link left under them, and no link created under since
    left,       \* requests still to be received
    up,         \* whether redis answers: FALSE when every call on
                \*   redis_client raises ConnectionError
    minted      \* history: ids of rows whose create_short_link has returned
                \*   success and whose code has not been reassigned since

vars == <<store, nextId, cache, now, pc, arg, loc, resp, swpc, swsel,
          retired, left, up, minted>>

\* a run of delete_expired_links that holds no expired_links
NoSweep == [sel |-> {}, todo |-> {}]

\* ---- rows of table links (models.Link) ----
Link(i, c, u, o, t, e) ==
    [id |-> i, short_code |-> c, original_url |-> u, user_id |-> o,
     created_at |-> t, last_accessed |-> t, expires_at |-> e,
     click_count |-> 0]

NoLink == Link(None, None, None, None, None, None)

\* What a session keeps of a row it loaded, as far as the handlers read it
\* again later: the primary key, and the attributes used after the query.
Loaded(r) == [id |-> r.id, short_code |-> r.short_code,
              original_url |-> r.original_url, click_count |-> r.click_count]

\* What a sweep reads of a row it selected: link.short_code, and the
\* primary key of the DELETE.
Selected(rows) == {[id |-> r.id, short_code |-> r.short_code] : r \in rows}

NoArg == [op |-> "none", short_code |-> None, user |-> None]

\* A request's parameters enter arg when the handler first reads them;
\* original_url, the owner and expires_at of a create go into the row.
Op(o) == [NoArg EXCEPT !.op = o]

NoLoc == [link_obj |-> Loaded(NoLink), code |-> None, cached_url |-> None,
          now_utc |-> None, sel |-> {}, todo |-> {}]

NoResp == [status |-> None, location |-> None, short_code |-> None]

Rows(st) == {st[i] : i \in DOMAIN st}

\* db.query(Link).filter(Link.short_code == c).first()
FirstByCode(st, c) ==
    IF \E i \in DOMAIN st : st[i].short_code = c
    THEN st[CHOOSE i \in DOMAIN st : st[i].short_code = c]
    ELSE NoLink

\* the rows cleanup_expired_unregistered_links selects
IdleGuests(st, t) ==
    {r \in Rows(st) : r.user_id = None
                      /\ r.last_accessed < t - UNREGISTERED_LINK_MAX_AGE_DAYS}

\* expires_at compared with <= instead of <
ExpiredLinksOrDue(st, t) ==
    {r \in Rows(st) : r.expires_at # None /\ r.expires_at <= t}

\* the rows delete_expired_links selects
ExpiredLinks(st, t) ==
    {r \in Rows(st) : r.expires_at # None /\ r.expires_at < t}

\* the test of redirect_link's cache-miss path
IsExpired(r, t) == r.expires_at # None /\ r.expires_at < t

\* links.short_code declared without unique=True
NoUniqueConstraint(st, c, i) == FALSE

\* a uniqueness check made by the application on renames only
UniqueOnRenameOnly(st, c, i) ==
    i \in DOMAIN st /\ \E j \in DOMAIN st : j # i /\ st[j].short_code = c

\* the unique constraint on links.short_code, checked by the database when
\* a row is inserted or its short_code updated
UniqueViolation(st, c, i) ==
    \E j \in DOMAIN st : j # i /\ st[j].short_code = c

\* rows deleted by their short_code: DELETE ... WHERE short_code = :code
DeleteRowsByCode(st, rows) ==
    [i \in {j \in DOMAIN st :
              st[j].short_code \notin {r.short_code : r \in rows}}
       |-> st[i]]

\* flush of db.delete(...) for a set of rows: DELETE ... WHERE id = :id;
\* a row already gone matches nothing and is only warned about
DeleteRows(st, rows) ==
    [i \in DOMAIN st \ {r.id : r \in rows} |-> st[i]]

\* the loop of both sweeps visits the selected rows in id order
NextOf(rows) == CHOOSE r \in rows : \A s \in rows : r.id <= s.id

\* an invalidation that is left out
CacheDeleteForgotten(ca, c) == ca

\* redis_client.set / redis_client.delete
CacheSet(ca, c, u) == [ca EXCEPT ![c] = u]
CacheDelete(ca, c) == [ca EXCEPT ![c] = None]

\* no link yet, an empty cache, no request in flight, the sweep not running
Start ==
    /\ store = << >>
    /\ nextId = 1
    /\ cache = [c \in Codes |-> None]
    /\ now = 1
    /\ pc = [p \in Procs |-> "idle"]
    /\ arg = [p \in Procs |-> NoArg]
    /\ loc = [p \in Procs |-> NoLoc]
    /\ resp = [p \in Procs |-> NoResp]
    /\ swpc = [w \in Sweepers |-> "idle"]
    /\ swsel = [w \in Sweepers |-> NoSweep]
    /\ retired = {}
    /\ minted = {}

Init == Start /\ up = TRUE /\ left = MaxClockReqs

\* the clock advances
Tick ==
    /\ now < MaxNow
    /\ now' = now + 1
    /\ UNCHANGED <<store, nextId, cache, pc, arg, loc, resp, swpc, swsel,
                   retired, minted, left, up>>

\* ---- the response of a handler ----
Respond(p, st, u) ==
    /\ pc' = [pc EXCEPT ![p] = "done"]
    /\ loc' = [loc EXCEPT ![p] = NoLoc]
    /\ resp' = [resp EXCEPT ![p] = [NoResp EXCEPT !.status = st,
                                                  !.location = u]]

\* a handler goes on to statement s with locals l
Goto(p, s, l) ==
    /\ pc' = [pc EXCEPT ![p] = s]
    /\ loc' = [loc EXCEPT ![p] = l]
    /\ UNCHANGED resp

\* the handler the router calls after the middleware
Entry(o) ==
    CASE o = "create" -> "cr_check"
      [] o = "redirect" -> "rd_get"
      [] o = "delete" -> "dl_query"
      [] o = "reassign" -> "ra_query"

\* rows of the history variable minted that are still in the table
Live(ids, st) == ids \cap DOMAIN st

\* ---- cleanup_middleware / cleanup_expired_unregistered_links ----

\* A request arrives: the middleware opens a session and selects the idle
\* guest links; with none selected, nothing is deleted or committed and the
\* request goes to its handler.
Begin(p, o) ==
    /\ pc[p] = "idle"
    /\ left > 0
    /\ left' = left - 1
    /\ arg' = [arg EXCEPT ![p] = Op(o)]
    /\ LET sel == Selected(IdleGuests(store, now))
       IN  Goto(p, IF sel = {} THEN Entry(o) ELSE "mw_delete",
                [NoLoc EXCEPT !.sel = sel, !.todo = sel])
    /\ UNCHANGED <<store, nextId, cache, now, swpc, swsel, retired, minted,
                   up>>

\* for link in unregistered: db.delete(link); redis_client.delete(code)
\* (the DELETE itself is only flushed by the commit below)
CleanupDelete(p) ==
    /\ pc[p] = "mw_delete"
    /\ IF up
       THEN LET r == NextOf(loc[p].todo)
                rest == loc[p].todo \ {r}
            IN  /\ cache' = CacheDelete(cache, r.short_code)
                /\ Goto(p, IF rest = {} THEN "mw_commit" ELSE "mw_delete",
                        [loc[p] EXCEPT !.todo = rest])
       ELSE /\ Respond(p, 500, None)
            /\ UNCHANGED cache
    /\ UNCHANGED <<store, nextId, now, arg, swpc, swsel, retired, minted,
                   left, up>>

\* if unregistered: db.commit(); then call_next(request)
CleanupCommit(p) ==
    /\ pc[p] = "mw_commit"
    /\ store' = DeleteRows(store, loc[p].sel)
    /\ minted' = Live(minted, store')
    /\ Goto(p, Entry(arg[p].op), loc[p])
    /\ UNCHANGED <<nextId, cache, now, arg, swpc, swsel, retired, left, up>>

\* ---- create_short_link ----

\* the creates received that may still insert a row
InFlightCreates ==
    Cardinality({p \in Procs :
                   /\ arg[p].op = "create"
                   /\ pc[p] \notin {"cr_refresh", "cr_cache", "done"}})

BeginCreate(p) ==
    /\ nextId + InFlightCreates <= MaxLinks
    /\ Begin(p, "create")

\* create_short_link without the pre-check of the custom alias
CreateCheckNoPrecheck(p) ==
    /\ pc[p] = "cr_check"
    /\ \E alias \in Codes \cup {None}, e \in {None, BadDate} :
          /\ arg' = [arg EXCEPT ![p].short_code = alias]
          /\ IF e = BadDate
             THEN Respond(p, 400, None)
             ELSE \E c \in IF alias # None THEN {alias} ELSE Codes :
                    Goto(p, "cr_commit",
                         [NoLoc EXCEPT !.code = c, !.now_utc = now])
    /\ UNCHANGED <<store, nextId, cache, now, swpc, swsel, retired, minted,
                   left, up>>

\* get_user_by_token; strptime of expires_at (400 on ValueError); the
\* pre-check of a custom alias (400 when taken), else a uuid4 draw;
\* now_utc; Link(...); db.add(new_link)
CreateCheck(p) ==
    /\ pc[p] = "cr_check"
    /\ \E alias \in Codes \cup {None}, e \in {None, BadDate} :
          /\ arg' = [arg EXCEPT ![p].short_code = alias]
          /\ IF e = BadDate
             THEN Respond(p, 400, None)
             ELSE IF alias # None
             THEN IF FirstByCode(store, alias) # NoLink
                  THEN Respond(p, 400, None)
                  ELSE Goto(p, "cr_commit",
                            [NoLoc EXCEPT !.code = alias, !.now_utc = now])
             ELSE \E c \in Codes :
                    Goto(p, "cr_commit",
                         [NoLoc EXCEPT !.code = c, !.now_utc = now])
    /\ UNCHANGED <<store, nextId, cache, now, swpc, swsel, retired, minted,
                   left, up>>

\* db.commit(): INSERT INTO links; the unique constraint on short_code
\* raises IntegrityError, which the handler does not catch (500)
CreateCommit(p) ==
    /\ pc[p] = "cr_commit"
    /\ \E u \in Urls, o \in 1..NumOwners \cup {None},
          e \in 1..MaxExpiry \cup {None} :
          LET c == loc[p].code
              row == Link(nextId, c, u, o, loc[p].now_utc, e)
          IN  IF UniqueViolation(store, c, nextId)
              THEN /\ Respond(p, 500, None)
                   /\ UNCHANGED <<store, nextId, retired>>
              ELSE /\ store' = (nextId :> row) @@ store
                   /\ nextId' = nextId + 1
                   /\ retired' = retired \ {c}
                   /\ Goto(p, "cr_refresh",
                           [loc[p] EXCEPT !.link_obj = Loaded(row)])
    /\ UNCHANGED <<cache, now, arg, swpc, swsel, minted, left, up>>

\* db.refresh(new_link): SELECT by primary key; InvalidRequestError (500)
\* when the row is gone
CreateRefresh(p) ==
    /\ pc[p] = "cr_refresh"
    /\ LET i == loc[p].link_obj.id
       IN  IF i \in DOMAIN store
           THEN Goto(p, "cr_cache",
                     [loc[p] EXCEPT !.link_obj = Loaded(store[i])])
           ELSE Respond(p, 500, None)
    /\ UNCHANGED <<store, nextId, cache, now, arg, swpc, swsel, retired,
                   minted, left, up>>

\* redis_client.set(short_code, new_link.original_url); the HTML response
CreateCache(p) ==
    /\ pc[p] = "cr_cache"
    /\ IF up
       THEN /\ cache' = CacheSet(cache, loc[p].code,
                                 loc[p].link_obj.original_url)
            /\ minted' = Live(minted \cup {loc[p].link_obj.id}, store)
            /\ Respond(p, 200, None)
       ELSE /\ Respond(p, 500, None)
            /\ UNCHANGED <<cache, minted>>
    /\ UNCHANGED <<store, nextId, now, arg, swpc, swsel, retired, left, up>>

\* ---- redirect_link ----

InFlightRedirects == Cardinality({p \in Procs : arg[p].op = "redirect"
                                                /\ pc[p] # "done"})

MostClicks == IF store = << >> THEN 0
              ELSE CHOOSE n \in {r.click_count : r \in Rows(store)} :
                     \A r \in Rows(store) : r.click_count <= n

BeginRedirect(p) ==
    /\ MostClicks + InFlightRedirects < MaxClicks
    /\ Begin(p, "redirect")

\* cached_url = redis_client.get(short_code)
RedirectGet(p) ==
    /\ pc[p] = "rd_get"
    /\ \E c \in Codes :
          /\ arg' = [arg EXCEPT ![p].short_code = c]
          /\ IF up
             THEN Goto(p, IF cache[c] # None THEN "rd_hit_query"
                                             ELSE "rd_miss_query",
                       [NoLoc EXCEPT !.cached_url = cache[c]])
             ELSE Respond(p, 500, None)
    /\ UNCHANGED <<store, nextId, cache, now, swpc, swsel, retired, minted,
                   left, up>>

\* cache hit: link_obj = db.query(...).first(); without a row the cached
\* url is returned as it is
RedirectHitQuery(p) ==
    /\ pc[p] = "rd_hit_query"
    /\ LET link_obj == FirstByCode(store, arg[p].short_code)
       IN  IF link_obj = NoLink
           THEN Respond(p, 307, loc[p].cached_url)
           ELSE Goto(p, "rd_hit_commit",
                     [loc[p] EXCEPT !.link_obj = Loaded(link_obj),
                                   !.now_utc = now])
    /\ UNCHANGED <<store, nextId, cache, now, arg, swpc, swsel, retired,
                   minted, left, up>>

\* flush of link_obj.last_accessed = ...; link_obj.click_count += 1:
\* UPDATE links SET last_accessed = :t, click_count = :n WHERE id = :id,
\* with :n the count the session loaded plus one; a row that is gone
\* matches nothing and the session raises StaleDataError (500)
UpdateAccess(st, link_obj, t) ==
    [st EXCEPT ![link_obj.id].last_accessed = t,
               ![link_obj.id].click_count = link_obj.click_count + 1]

RedirectHitCommit(p) ==
    /\ pc[p] = "rd_hit_commit"
    /\ IF loc[p].link_obj.id \in DOMAIN store
       THEN /\ store' = UpdateAccess(store, loc[p].link_obj, loc[p].now_utc)
            /\ Respond(p, 307, loc[p].cached_url)
       ELSE /\ Respond(p, 500, None)
            /\ UNCHANGED store
    /\ UNCHANGED <<nextId, cache, now, arg, swpc, swsel, retired, minted,
                   left, up>>

\* the cache-miss path recording the access before it tests expires_at
RedirectMissQueryCounting(p) ==
    /\ pc[p] = "rd_miss_query"
    /\ LET link_obj == FirstByCode(store, arg[p].short_code)
       IN  IF link_obj = NoLink
           THEN /\ Respond(p, 404, None)
                /\ UNCHANGED store
           ELSE IF IsExpired(link_obj, now)
           THEN /\ store' = UpdateAccess(store, Loaded(link_obj), now)
                /\ Respond(p, 410, None)
           ELSE /\ Goto(p, "rd_miss_commit",
                        [loc[p] EXCEPT !.link_obj = Loaded(link_obj),
                                      !.now_utc = now])
                /\ UNCHANGED store
    /\ UNCHANGED <<nextId, cache, now, arg, swpc, swsel, retired, minted,
                   left, up>>

\* cache miss: the row is read; 404 without one, 410 when expired
RedirectMissQuery(p) ==
    /\ pc[p] = "rd_miss_query"
    /\ LET link_obj == FirstByCode(store, arg[p].short_code)
       IN  IF link_obj = NoLink
           THEN Respond(p, 404, None)
           ELSE IF IsExpired(link_obj, now)
           THEN Respond(p, 410, None)
           ELSE Goto(p, "rd_miss_commit",
                     [loc[p] EXCEPT !.link_obj = Loaded(link_obj),
                                   !.now_utc = now])
    /\ UNCHANGED <<store, nextId, cache, now, arg, swpc, swsel, retired,
                   minted, left, up>>

RedirectMissCommit(p) ==
    /\ pc[p] = "rd_miss_commit"
    /\ IF loc[p].link_obj.id \in DOMAIN store
       THEN /\ store' = UpdateAccess(store, loc[p].link_obj, loc[p].now_utc)
            /\ Goto(p, "rd_miss_refresh", loc[p])
       ELSE /\ Respond(p, 500, None)
            /\ UNCHANGED store
    /\ UNCHANGED <<nextId, cache, now, arg, swpc, swsel, retired, minted,
                   left, up>>

\* link_obj.original_url after the commit: the session expired the
\* object, so the attribute is loaded again by primary key;
\* ObjectDeletedError (500) when the row is gone
RedirectMissRefresh(p) ==
    /\ pc[p] = "rd_miss_refresh"
    /\ LET i == loc[p].link_obj.id
       IN  IF i \in DOMAIN store
           THEN Goto(p, "rd_miss_set",
                     [loc[p] EXCEPT !.link_obj = Loaded(store[i])])
           ELSE Respond(p, 500, None)
    /\ UNCHANGED <<store, nextId, cache, now, arg, swpc, swsel, retired,
                   minted, left, up>>

\* redis_client.set(short_code, link_obj.original_url); the 307
RedirectMissSet(p) ==
    /\ pc[p] = "rd_miss_set"
    /\ IF up
       THEN /\ cache' = CacheSet(cache, arg[p].short_code,
                                 loc[p].link_obj.original_url)
            /\ Respond(p, 307, loc[p].link_obj.original_url)
       ELSE /\ Respond(p, 500, None)
            /\ UNCHANGED cache
    /\ UNCHANGED <<store, nextId, now, arg, swpc, swsel, retired, minted,
                   left, up>>

\* ---- delete_link ----

\* a delete or reassign of code c has returned: c is retired unless a link
\* lives under it
Retire(c, st) ==
    IF FirstByCode(st, c) = NoLink THEN retired \cup {c} ELSE retired

BeginDelete(p) == Begin(p, "delete")

\* the checks of delete_link on the row it read: the HTTP status it
\* raises, or None when the caller may delete
\* delete_link without the check that the link has an owner and with the
\* ownership check skipped for a link without one
DeleteDeniedOwnedOnly(link_obj, user) ==
    IF link_obj = NoLink THEN 404
    ELSE IF link_obj.user_id # None /\ link_obj.user_id # user THEN 403
    ELSE None

DeleteDenied(link_obj, user) ==
    IF link_obj = NoLink THEN 404
    ELSE IF link_obj.user_id = None THEN 403
    ELSE IF link_obj.user_id # user THEN 403
    ELSE None

DeleteQuery(p) ==
    /\ pc[p] = "dl_query"
    /\ \E c \in Codes, o \in Users :
          LET link_obj == FirstByCode(store, c)
              denied == DeleteDenied(link_obj, o)
          IN  /\ arg' = [arg EXCEPT ![p].short_code = c, ![p].user = o]
              /\ IF denied # None
                 THEN Respond(p, denied, None)
                 ELSE Goto(p, "dl_commit",
                           [NoLoc EXCEPT !.link_obj = Loaded(link_obj)])
    /\ UNCHANGED <<store, nextId, cache, now, swpc, swsel, retired, minted,
                   left, up>>

\* db.delete(link_obj); db.commit()
DeleteCommit(p) ==
    /\ pc[p] = "dl_commit"
    /\ store' = DeleteRows(store, {loc[p].link_obj})
    /\ minted' = Live(minted, store')
    /\ Goto(p, "dl_cache", loc[p])
    /\ UNCHANGED <<nextId, cache, now, arg, swpc, swsel, retired, left, up>>

\* redis_client.delete(short_code); the 200
DeleteCache(p) ==
    /\ pc[p] = "dl_cache"
    /\ IF up
       THEN /\ cache' = CacheDelete(cache, arg[p].short_code)
            /\ retired' = Retire(arg[p].short_code, store)
            /\ Respond(p, 200, None)
       ELSE /\ Respond(p, 500, None)
            /\ UNCHANGED <<cache, retired>>
    /\ UNCHANGED <<store, nextId, now, arg, swpc, swsel, minted, left, up>>

\* ---- reassign_code ----

BeginReassign(p) == Begin(p, "reassign")

\* the checks of reassign_code on the row it read
ReassignDenied(link_obj, user) ==
    IF link_obj = NoLink THEN 404
    ELSE IF link_obj.user_id = None \/ link_obj.user_id # user THEN 403
    ELSE None

\* the row is read and checked; new_code = str(uuid.uuid4())[:8]
ReassignQuery(p) ==
    /\ pc[p] = "ra_query"
    /\ \E c \in Codes, o \in Users :
          LET link_obj == FirstByCode(store, c)
              denied == ReassignDenied(link_obj, o)
          IN  /\ arg' = [arg EXCEPT ![p].short_code = c, ![p].user = o]
              /\ IF denied # None
                 THEN Respond(p, denied, None)
                 ELSE \E new_code \in Codes :
                        Goto(p, "ra_check",
                             [NoLoc EXCEPT !.link_obj = Loaded(link_obj),
                                           !.code = new_code])
    /\ UNCHANGED <<store, nextId, cache, now, swpc, swsel, retired, minted,
                   left, up>>

\* existing = db.query(...new_code...).first(): 400 when taken
ReassignCheck(p) ==
    /\ pc[p] = "ra_check"
    /\ IF FirstByCode(store, loc[p].code) # NoLink
       THEN Respond(p, 400, None)
       ELSE Goto(p, "ra_cache_delete", loc[p])
    /\ UNCHANGED <<store, nextId, cache, now, arg, swpc, swsel, retired,
                   minted, left, up>>

\* redis_client.delete(short_code)
ReassignCacheDelete(p) ==
    /\ pc[p] = "ra_cache_delete"
    /\ IF up
       THEN /\ cache' = CacheDelete(cache, arg[p].short_code)
            /\ Goto(p, "ra_commit", loc[p])
       ELSE /\ Respond(p, 500, None)
            /\ UNCHANGED cache
    /\ UNCHANGED <<store, nextId, now, arg, swpc, swsel, retired, minted,
                   left, up>>

\* flush of link_obj.short_code = new_code:
\* UPDATE links SET short_code = :new WHERE id = :id
Rename(st, i, new_code) == [st EXCEPT ![i].short_code = new_code]

\* db.commit(): StaleDataError when the row is gone, IntegrityError when
\* the new code is taken; neither is caught (500)
ReassignCommit(p) ==
    /\ pc[p] = "ra_commit"
    /\ LET i == loc[p].link_obj.id
           new_code == loc[p].code
       IN  IF i \notin DOMAIN store \/ UniqueViolation(store, new_code, i)
           THEN /\ Respond(p, 500, None)
                /\ UNCHANGED <<store, retired, minted>>
           ELSE /\ store' = Rename(store, i, new_code)
                /\ retired' = retired \ {new_code}
                /\ minted' = minted \ {i}
                /\ Goto(p, "ra_refresh", loc[p])
    /\ UNCHANGED <<nextId, cache, now, arg, swpc, swsel, left, up>>

\* db.refresh(link_obj)
ReassignRefresh(p) ==
    /\ pc[p] = "ra_refresh"
    /\ LET i == loc[p].link_obj.id
       IN  IF i \in DOMAIN store
           THEN Goto(p, "ra_set",
                     [loc[p] EXCEPT !.link_obj = Loaded(store[i])])
           ELSE Respond(p, 500, None)
    /\ UNCHANGED <<store, nextId, cache, now, arg, swpc, swsel, retired,
                   minted, left, up>>

\* redis_client.set(new_code, link_obj.original_url); the LinkInfo
ReassignSet(p) ==
    /\ pc[p] = "ra_set"
    /\ IF up
       THEN /\ cache' = CacheSet(cache, loc[p].code,
                                 loc[p].link_obj.original_url)
            /\ retired' = Retire(arg[p].short_code, store)
            /\ pc' = [pc EXCEPT ![p] = "done"]
            /\ loc' = [loc EXCEPT ![p] = NoLoc]
            /\ resp' = [resp EXCEPT ![p] =
                          [NoResp EXCEPT
                             !.status = 200,
                             !.short_code = loc[p].link_obj.short_code]]
       ELSE /\ Respond(p, 500, None)
            /\ UNCHANGED <<cache, retired>>
    /\ UNCHANGED <<store, nextId, now, arg, swpc, swsel, minted, left, up>>

\* the response has been sent: the slot is free for the next request
Return(p) ==
    /\ pc[p] = "done"
    /\ pc' = [pc EXCEPT ![p] = "idle"]
    /\ arg' = [arg EXCEPT ![p] = NoArg]
    /\ resp' = [resp EXCEPT ![p] = NoResp]
    /\ UNCHANGED <<store, nextId, cache, now, loc, swpc, swsel, retired,
                   minted, left, up>>

\* ---- delete_expired_links (the APScheduler interval job) ----

\* the job fires: the expired links are selected; with none, nothing is
\* deleted or committed
SweepSelect(w) ==
    /\ swpc[w] = "idle"
    /\ LET sel == Selected(ExpiredLinks(store, now))
       IN  /\ swsel' = [swsel EXCEPT ![w] = [sel |-> sel, todo |-> sel]]
           /\ swpc' = [swpc EXCEPT
                         ![w] = IF sel = {} THEN "idle" ELSE "delete"]
    /\ UNCHANGED <<store, nextId, cache, now, pc, arg, loc, resp, retired,
                   minted, left, up>>

\* for link in expired_links: db.delete(link); redis_client.delete(code)
SweepDelete(w) ==
    /\ swpc[w] = "delete"
    /\ IF up
       THEN LET r == NextOf(swsel[w].todo)
                rest == swsel[w].todo \ {r}
            IN  /\ cache' = CacheDelete(cache, r.short_code)
                /\ swsel' = [swsel EXCEPT ![w].todo = rest]
                /\ swpc' = [swpc EXCEPT
                              ![w] = IF rest = {} THEN "commit"
                                                  ELSE "delete"]
       ELSE /\ swsel' = [swsel EXCEPT ![w] = NoSweep]
            /\ swpc' = [swpc EXCEPT ![w] = "idle"]
            /\ UNCHANGED cache
    /\ UNCHANGED <<store, nextId, now, pc, arg, loc, resp, retired, minted,
                   left, up>>

\* if expired_links: db.commit(); db.close()
SweepCommit(w) ==
    /\ swpc[w] = "commit"
    /\ store' = DeleteRows(store, swsel[w].sel)
    /\ minted' = Live(minted, store')
    /\ swsel' = [swsel EXCEPT ![w] = NoSweep]
    /\ swpc' = [swpc EXCEPT ![w] = "idle"]
    /\ UNCHANGED <<nextId, cache, now, pc, arg, loc, resp, retired, left, up>>

\* ---- the system ----

Arrive(p) ==
    \/ BeginCreate(p) \/ BeginRedirect(p) \/ BeginDelete(p)
    \/ BeginReassign(p)

Cleanup(p) == CleanupDelete(p) \/ CleanupCommit(p)

Create(p) ==
    \/ CreateCheck(p) \/ CreateCommit(p) \/ CreateRefresh(p)
    \/ CreateCache(p)

Redirect(p) ==
    \/ RedirectGet(p) \/ RedirectHitQuery(p) \/ RedirectHitCommit(p)
    \/ RedirectMissQuery(p) \/ RedirectMissCommit(p)
    \/ RedirectMissRefresh(p) \/ RedirectMissSet(p)

Delete(p) == DeleteQuery(p) \/ DeleteCommit(p) \/ DeleteCache(p)

Reassign(p) ==
    \/ ReassignQuery(p) \/ ReassignCheck(p) \/ ReassignCacheDelete(p)
    \/ ReassignCommit(p) \/ ReassignRefresh(p) \/ ReassignSet(p)

Handle(p) ==
    Create(p) \/ Redirect(p) \/ Delete(p) \/ Reassign(p) \/ Return(p)

Sweep(w) == SweepSelect(w) \/ SweepDelete(w) \/ SweepCommit(w)

\* Requests, the clock and the scheduled sweep, all interleaved.
Next ==
    \/ Tick
    \/ Sweep(1)
    \/ \E p \in Procs : Arrive(p) \/ Cleanup(p) \/ Handle(p)

Spec == Init /\ [][Next]_vars

\* The same system with more requests to come.
InitMore == Start /\ up = TRUE /\ left = MaxReqs

\* Requests racing each other while the clock stands still (no link grows
\* idle or expires, so neither sweep has anything to remove).
NextRace == \E p \in Procs : Arrive(p) \/ Handle(p)

SpecRace == InitMore /\ [][NextRace]_vars

\* create_short_link and redirect_link requests racing each other and the
\* guest cleanup of the middleware while the clock runs.
NextClock ==
    \/ Tick
    \/ \E p \in Procs :
          \/ BeginCreate(p) \/ BeginRedirect(p) \/ Cleanup(p)
          \/ Create(p) \/ Redirect(p) \/ Return(p)

SpecClock == InitMore /\ [][NextClock]_vars

\* Requests racing each other, the cache reachable or, from the start and for
\* good, unreachable.
InitOutage == Start /\ up \in BOOLEAN /\ left = MaxReqs

SpecOutage == InitOutage /\ [][NextRace]_vars

\* create_short_link and redirect_link requests, the clock and the scheduled
\* sweep, with the scheduler running the job again and again and every
\* request in flight going on to its response.
InitFair == Start /\ up = TRUE /\ left = MaxFairReqs

NextFair ==
    \/ Tick
    \/ Sweep(1)
    \/ \E p \in Procs :
          \/ BeginCreate(p) \/ BeginRedirect(p) \/ Cleanup(p)
          \/ Create(p) \/ Redirect(p) \/ Return(p)

Fairness ==
    /\ WF_vars(Sweep(1))
    /\ \A p \in Procs : WF_vars(Cleanup(p) \/ Create(p) \/ Redirect(p))

SpecFair == InitFair /\ [][NextFair]_vars /\ Fairness

\* create_short_link requests served one at a time and the clock, with runs
\* of the scheduled sweep that overlap (several schedulers, one per server
\* process).
NextSweeps ==
    \/ Tick
    \/ \E w \in Sweepers : Sweep(w)
    \/ BeginCreate(1) \/ Cleanup(1) \/ Create(1) \/ Return(1)

SpecSweeps == Init /\ [][NextSweeps]_vars

\* Operations one at a time: a request is received, and a run of the
\* scheduled sweep starts, only when no request and no run is in progress.
Calm ==
    /\ \A p \in Procs : pc[p] \in {"idle", "done"}
    /\ \A w \in Sweepers : swpc[w] = "idle"

InitSeq == Start /\ up = TRUE /\ left = MaxSeqReqs

\* redis loses a key (a restart without persistence, an eviction): the
\* only way a live link is not cached when operations do not interleave
CacheLoss ==
    /\ \E c \in Codes : cache[c] # None /\ cache' = CacheDelete(cache, c)
    /\ UNCHANGED <<store, nextId, now, pc, arg, loc, resp, swpc, swsel,
                   retired, left, up, minted>>

SeqArrive == Calm /\ Arrive(1)

SeqSweepSelect == Calm /\ SweepSelect(1)

NextSeq ==
    \/ Tick
    \/ CacheLoss
    \/ SeqSweepSelect \/ SweepDelete(1) \/ SweepCommit(1)
    \/ SeqArrive \/ Cleanup(1) \/ Handle(1)

SpecSeq == InitSeq /\ [][NextSeq]_vars

\* ---- helpers of the properties ----

Taken(c) == \E i \in DOMAIN store : store[i].short_code = c

\* request p takes a step out of statement s
Leaves(p, s) == pc[p] = s /\ pc'[p] # s

\* request p answers in this step, with status st
Answers(p, st) ==
    pc[p] # "done" /\ pc'[p] = "done" /\ resp'[p].status = st

\* ---- C1 ----
\* C1: once an owner's delete_link or reassign_code of code c has returned,
\* and until a link is created under c again, the cache holds no entry for
\* c, so that no redirect_link(c) starting then can answer 307 with the old
\* destination -- whatever requests were in flight meanwhile.
C1_NoEntryForRetiredCode == \A c \in retired : cache[c] = None

\* ---- C2 ----
\* C2: redirect_link never answers 307 while the link under its code has an
\* expires_at in the past, whether the sweep has run or not and whether the
\* code is cached or not.
C2_ExpiredNever307 ==
    [][\A p \in Procs :
         (arg[p].op = "redirect" /\ Answers(p, 307)
          /\ Taken(arg[p].short_code))
         => ~IsExpired(FirstByCode(store, arg[p].short_code), now)]_vars

\* ---- C3 ----
\* C3: in every reachable state no two live rows of the Store have the same
\* short_code.
C3_UniqueCodes ==
    \A i, j \in DOMAIN store :
       i # j => store[i].short_code # store[j].short_code

\* two links live, and a reassign_code that had passed its pre-check was
\* stopped by the constraint at commit
C3_Witness ==
    /\ Cardinality(DOMAIN store) = 2
    /\ \E p \in Procs : /\ pc[p] = "done"
                        /\ arg[p].op = "reassign"
                        /\ resp[p].status = 500
                        /\ \A i \in DOMAIN store :
                              store[i].short_code # arg[p].short_code
                              => store[i].user_id # arg[p].user

\* ---- C4 ----
\* C4: of two create_short_link requests in flight with the same short code,
\* at most one commits a Link: the commit of a create whose code is taken
\* fails, adding no row and leaving the cache alone; only a create that
\* committed writes the cache, and it writes its own original_url.
C4_OneCreateWins ==
    [][\A p \in Procs :
         /\ Leaves(p, "cr_commit") =>
              IF Taken(loc[p].code)
              THEN /\ Answers(p, 500)
                   /\ store' = store
                   /\ cache' = cache
              ELSE /\ DOMAIN store' = DOMAIN store \cup {nextId}
                   /\ store'[nextId].short_code = loc[p].code
                   /\ \A i \in DOMAIN store : store'[i] = store[i]
         /\ (arg[p].op = "create" /\ pc'[p] # pc[p] /\ cache' # cache) =>
              /\ pc[p] = "cr_cache"
              /\ cache' = [cache EXCEPT ![loc[p].code] =
                                           loc[p].link_obj.original_url]
      ]_vars

\* two creates with the same custom alias both passed the pre-check; one
\* has committed and set the cache, the other has failed
C4_Witness ==
    \E p, q \in Procs :
       /\ p # q
       /\ arg[p].op = "create" /\ arg[q].op = "create"
       /\ arg[p].short_code # None
       /\ arg[p].short_code = arg[q].short_code
       /\ pc[p] = "done" /\ resp[p].status = 500
       /\ pc[q] = "done" /\ resp[q].status = 200
       /\ Taken(arg[q].short_code)
       /\ cache[arg[q].short_code]
            = FirstByCode(store, arg[q].short_code).original_url

\* ---- C5 ----
\* C5: every redirect_link that records a resolution (on the cache-hit path
\* and on the cache-miss path) raises the link's click_count by exactly one
\* over its value before, under any interleaving; and click_count never
\* decreases while the link lives.
C5_EveryHitCountsOnce ==
    [][/\ \A p \in Procs :
            ((Leaves(p, "rd_hit_commit") \/ Leaves(p, "rd_miss_commit"))
             /\ loc[p].link_obj.id \in DOMAIN store)
            => store'[loc[p].link_obj.id].click_count
                 = store[loc[p].link_obj.id].click_count + 1
       /\ \A i \in DOMAIN store \cap DOMAIN store' :
            store'[i].click_count >= store[i].click_count
      ]_vars

\* ---- C6 ----
\* C6: while a link whose create_short_link answered 200 lives under the
\* code it was given (not deleted, not reassigned, not swept), a
\* redirect_link of that code answers with the link's own original_url: the
\* cache entry of the code, when there is one, is that url.
C6_CreatedCodeResolves ==
    \A i \in minted \cap DOMAIN store :
       cache[store[i].short_code] \in {None, store[i].original_url}

\* ---- C7 ----
\* C7: when the handler of a request starts, every idle guest link the
\* request's cleanup selected is gone from the Store and, unless a new link
\* took its code, from the Cache, so that a redirect_link of the code in
\* this request answers 404.
C7_SweptBeforeHandler ==
    \A p \in Procs :
       pc[p] = "rd_get" =>
          \A k \in loc[p].sel :
             /\ k.id \notin DOMAIN store
             /\ ~Taken(k.short_code) => cache[k.short_code] = None

\* ---- C8 ----
\* C8: the commit of the guest idle sweep removes only rows that are guest
\* links with last_accessed older than the cutoff: never an owned link,
\* never a guest link a redirect has refreshed.
C8_OnlyIdleGuestsSwept ==
    [][\A p \in Procs :
         Leaves(p, "mw_commit") =>
            \A i \in DOMAIN store \ DOMAIN store' :
               /\ store[i].user_id = None
               /\ store[i].last_accessed
                    < now - UNREGISTERED_LINK_MAX_AGE_DAYS]_vars

\* ---- C9 ----
\* C9: delete_link answers 404 when no link has the code and 403 when the
\* link is a guest link or belongs to another user, and then leaves Store
\* and Cache as they were; a guest link leaves the Store only in the commit
\* of one of the two sweeps.
C9_DeleteRefused ==
    [][/\ \A p \in Procs :
            Leaves(p, "dl_query") =>
               LET r == FirstByCode(store, arg'[p].short_code)
               IN  /\ r = NoLink => Answers(p, 404)
                   /\ (r # NoLink /\ r.user_id = None) => Answers(p, 403)
                   /\ (r # NoLink /\ r.user_id # arg'[p].user)
                        => Answers(p, 403)
                   /\ pc'[p] = "done" => store' = store /\ cache' = cache
       /\ \A i \in DOMAIN store \ DOMAIN store' :
            store[i].user_id = None =>
               \/ \E w \in Sweepers :
                     swpc[w] = "commit" /\ swpc'[w] # "commit"
               \/ \E p \in Procs : Leaves(p, "mw_commit")
      ]_vars

\* a delete_link on a live guest link has been refused with 403
C9_Witness ==
    \E p \in Procs :
       /\ pc[p] = "done"
       /\ arg[p].op = "delete"
       /\ resp[p].status = 403
       /\ Taken(arg[p].short_code)
       /\ FirstByCode(store, arg[p].short_code).user_id = None

\* ---- C10 ----
\* C10: when reassign_code has answered 200, the old code resolves no more:
\* unless a new link took the old code, the cache holds no entry for it (a
\* redirect_link of the old code answers 404), and a link lives under the
\* new code.
C10_OldCodeGone ==
    \A p \in Procs :
       (pc[p] = "done" /\ arg[p].op = "reassign" /\ resp[p].status = 200)
       => /\ Taken(resp[p].short_code)
          /\ ~Taken(arg[p].short_code) => cache[arg[p].short_code] = None

\* ---- C11 ----
\* C11: a commit of create_short_link or of reassign_code that violates the
\* uniqueness of short_code ends the request with a 4xx uniqueness error,
\* not with an unhandled storage error, and changes neither Store nor Cache.
C11_RaceLoserGets4xx ==
    [][\A p \in Procs :
         (\/ Leaves(p, "cr_commit") /\ Taken(loc[p].code)
          \/ /\ Leaves(p, "ra_commit")
             /\ loc[p].link_obj.id \in DOMAIN store
             /\ Taken(loc[p].code))
         => /\ pc'[p] = "done"
            /\ resp'[p].status \in 400..499
            /\ store' = store
            /\ cache' = cache]_vars

\* ---- C12 ----
\* C12: create_short_link with a custom alias that is the short_code of a
\* live link answers 400 and changes neither the Store (no row added, the
\* existing row as it was) nor the Cache.
C12_AliasTakenRefused ==
    [][\A p \in Procs :
         (/\ Leaves(p, "cr_check")
          /\ arg'[p].short_code # None
          /\ Taken(arg'[p].short_code))
         => /\ Answers(p, 400)
            /\ store' = store
            /\ nextId' = nextId
            /\ cache' = cache]_vars

\* a create with the alias of a live, cached link has been refused
C12_Witness ==
    \E p \in Procs :
       /\ pc[p] = "done"
       /\ arg[p].op = "create"
       /\ resp[p].status = 400
       /\ arg[p].short_code # None
       /\ Taken(arg[p].short_code)
       /\ cache[arg[p].short_code]
            = FirstByCode(store, arg[p].short_code).original_url

\* ---- C13 ----
\* C13: with the cache unreachable no request ends in an error at one of
\* its calls on the cache: create_short_link, redirect_link, delete_link,
\* reassign_code and the cleanup of the middleware go on as with a cache
\* that always misses.
C13_CacheFailureTolerated ==
    [][\A p \in Procs :
         (~up /\ pc[p] \in {"mw_delete", "cr_cache", "rd_get", "rd_miss_set",
                            "dl_cache", "ra_cache_delete", "ra_set"})
         => ~Answers(p, 500)]_vars

\* ---- C14 ----
\* C14: in both sweeps, when the cache entry of a selected link is
\* invalidated, the removal of the link from the Store has already been
\* committed (the row is gone from the table).
C14_CommitBeforeInvalidate ==
    [][/\ \A w \in Sweepers :
            (up /\ swpc[w] = "delete" /\ swsel'[w] # swsel[w])
            => NextOf(swsel[w].todo).id \notin DOMAIN store
       /\ \A p \in Procs :
            (up /\ pc[p] = "mw_delete" /\ loc'[p] # loc[p])
            => NextOf(loc[p].todo).id \notin DOMAIN store
      ]_vars

\* ---- C15 ----
\* a link with expires_at in the past lives under code c
ExpiredUnder(c) ==
    \E i \in DOMAIN store :
       store[i].short_code = c /\ IsExpired(store[i], now)

\* nothing is left of an expired link under code c: neither Store nor Cache
\* holds c, or a link that is not expired has taken c
Swept(c) ==
    IF Taken(c) THEN ~ExpiredUnder(c) ELSE cache[c] = None

\* C15: under fair scheduling of the absolute-expiry sweep, a link whose
\* expires_at has passed is eventually absent from both the Store and the
\* Cache, and stays absent until a new link is created under its code.
C15_ExpiredEventuallySwept ==
    \A c \in Codes : ExpiredUnder(c) ~> []Swept(c)

SweepStep(w, from) ==
    swpc[w] = from /\ <<swpc[w], swsel[w]>>' # <<swpc[w], swsel[w]>>

\* the query of the sweep selects exactly the links with expires_at set and
\* earlier than now, whoever owns them and whenever they were accessed
SelectsExpired(w) ==
    swpc[w] = "idle" /\ swsel'[w] # swsel[w] =>
       swsel'[w].sel = {[id |-> i, short_code |-> store[i].short_code] :
                          i \in {j \in DOMAIN store :
                                   /\ store[j].expires_at # None
                                   /\ store[j].expires_at < now}}

\* the commit of the sweep removes selected rows only, all of them expired,
\* and leaves every other row and the cache as they were
RemovesExpired(w) ==
    SweepStep(w, "commit") =>
       /\ \A i \in DOMAIN store \ DOMAIN store' :
             /\ i \in {k.id : k \in swsel[w].sel}
             /\ store[i].expires_at # None
             /\ store[i].expires_at < now
       /\ \A k \in swsel[w].sel : k.id \notin DOMAIN store'
       /\ \A i \in DOMAIN store' : i \in DOMAIN store /\ store'[i] = store[i]
       /\ cache' = cache

\* C17 as stated: the absolute-expiry sweep removes exactly the links with
\* expires_at set and earlier than its now; every link with expires_at
\* unset or not yet reached, and its cache entry, is left unchanged.
C17_SweepFrame ==
    [][\A w \in Sweepers :
         /\ SelectsExpired(w)
         /\ RemovesExpired(w)
         /\ SweepStep(w, "delete") =>
              /\ store' = store
              /\ \A i \in DOMAIN store :
                    ~IsExpired(store[i], now) =>
                       cache'[store[i].short_code]
                         = cache[store[i].short_code]
      ]_vars

\* C17, amended: as above for the Store; of the Cache the sweep changes only
\* the entries of the codes its selected links had when its query ran (such
\* a code may by then belong to a link that is not expired).
C17_SweepFrameAtQuery ==
    [][\A w \in Sweepers :
         /\ SelectsExpired(w)
         /\ RemovesExpired(w)
         /\ SweepStep(w, "delete") =>
              /\ store' = store
              /\ \A c \in Codes :
                    cache'[c] # cache[c] =>
                       /\ cache'[c] = None
                       /\ c \in {k.short_code : k \in swsel[w].sel}
      ]_vars

\* the sweep is about to commit the removal of an expired link that has an
\* owner, while a link that is not expired stays
C17_Witness ==
    \E w \in Sweepers :
       /\ swpc[w] = "commit"
       /\ \E k \in swsel[w].sel :
             /\ k.id \in DOMAIN store
             /\ store[k.id].user_id # None
             /\ IsExpired(store[k.id], now)
       /\ \E j \in DOMAIN store : ~IsExpired(store[j], now)

\* ---- C18 ----
\* C18: a redirect_link that answers 404 or 410 has changed neither the
\* Store nor the Cache: it answers from the query of the cache-miss path,
\* and neither this step nor the cache lookup before it writes anything (no
\* click counted, last_accessed as it was, no cache entry written).
C18_FailedRedirectWritesNothing ==
    [][\A p \in Procs :
         arg[p].op = "redirect" =>
            /\ (Answers(p, 404) \/ Answers(p, 410))
                 => pc[p] = "rd_miss_query"
            /\ (pc[p] \in {"rd_get", "rd_miss_query"} /\ pc'[p] # pc[p])
                 => store' = store /\ cache' = cache]_vars

\* a redirect_link of an expired link has answered 410; the link has no
\* click counted and no cache entry
C18_Witness ==
    \E p \in Procs :
       /\ pc[p] = "done"
       /\ arg[p].op = "redirect"
       /\ resp[p].status = 410
       /\ Taken(arg[p].short_code)
       /\ IsExpired(FirstByCode(store, arg[p].short_code), now)
       /\ FirstByCode(store, arg[p].short_code).click_count = 0
       /\ cache[arg[p].short_code] = None

\* ---- C19 ----
\* C19: with operations run one at a time, whenever no operation is in
\* progress every cache entry (code, url) is the code and the original_url
\* of a live row of the Store.
C19_CacheWithinStore ==
    Calm =>
       \A c \in Codes :
          cache[c] # None =>
             \E i \in DOMAIN store :
                /\ store[i].short_code = c
                /\ store[i].original_url = cache[c]

\* no operation in progress, a delete_link or reassign_code has completed
\* leaving its old code free, and another code is cached
C19_Witness ==
    /\ Calm
    /\ retired # {}
    /\ \E c \in Codes \ retired : cache[c] # None
====
